---- MODULE Spec2Model ----
(***************************************************************************)
(* Ownership-compatibility classification of SIL operands                  *)
(* (lib/SIL/IR/OperandOwnership.cpp): Operand::getOwnershipKindMap and the *)
(* visitors of OperandOwnershipKindClassifier, as operators over a record  *)
(* describing one operand of one instruction.  The map type, the kind      *)
(* merge and the forwarding constraint live in headers outside this        *)
(* source tree and are modelled from the specification document.           *)
(*                                                                         *)
(* Loading of a .swift file as a module (lib/Sema/SourceLoader.cpp):       *)
(* findModule and SourceLoader::loadModule, one action per step, with the  *)
(* file system, the parser and the type checker as the environment.        *)
(***************************************************************************)
EXTENDS Integers, Sequences, FiniteSets, TLC

VARIABLES inst, result, pc

\* The state of the source loader: the context's import search paths, its
\* table of loaded modules, the modules it has allocated, the buffers of
\* the source manager, the diagnostics emitted, the loader's SkipBodies
\* flag, the activation of loadModule and its position.
VARIABLES ImportSearchPaths, LoadedModules, Modules, SourceBuffers, Diags,
          SkipBodies, frame, lpc

classifierVars == <<inst, result, pc>>

loaderVars ==
  <<ImportSearchPaths, LoadedModules, Modules, SourceBuffers, Diags,
    SkipBodies, frame, lpc>>

vars == <<inst, result, pc, ImportSearchPaths, LoadedModules, Modules,
          SourceBuffers, Diags, SkipBodies, frame, lpc>>

(* ---------------------------------------------------------------------- *)
(* Bounds                                                                 *)
(* ---------------------------------------------------------------------- *)

\* Largest number of operands of an enumerated instruction.
MaxOps == 3

\* Largest number of import search paths of the context.
MaxPaths == 2

\* Largest number of calls of loadModule on one context.
MaxLoads == 2

(* ---------------------------------------------------------------------- *)
(* Ownership lattice and compatibility map                                *)
(* ---------------------------------------------------------------------- *)

None == "None"
Owned == "Owned"
Guaranteed == "Guaranteed"

ValueOwnershipKind == {None, Owned, Guaranteed}

LifetimeEnding == "LifetimeEnding"
NonLifetimeEnding == "NonLifetimeEnding"

UseLifetimeConstraint == {LifetimeEnding, NonLifetimeEnding}

ParameterConvention ==
  {"Indirect_In", "Indirect_In_Constant", "Indirect_In_Guaranteed",
   "Indirect_Inout", "Indirect_InoutAliasable",
   "Direct_Owned", "Direct_Unowned", "Direct_Guaranteed"}

\* A map is a set of <<kind, constraint>> entries.
Map == {}

allLive == ValueOwnershipKind \X {NonLifetimeEnding}

addCompatibilityConstraint(map, kind, constraint) ==
  map \cup {<<kind, constraint>>}

compatibilityMap(kind, constraint) ==
  addCompatibilityConstraint(Map, kind, constraint)

\* The initializer-list overload: one entry per listed pair.
compatibilityMapOf(pairs) == Map \cup pairs

canAcceptKind(map, kind) ==
  \E c \in UseLifetimeConstraint : <<kind, c>> \in map

\* Every value of the type: a mapping from some of the kinds to one
\* constraint each.
AllMaps ==
  {m \in SUBSET (ValueOwnershipKind \X UseLifetimeConstraint) :
     \A k \in ValueOwnershipKind :
       ~(<<k, LifetimeEnding>> \in m /\ <<k, NonLifetimeEnding>> \in m)}

\* Owned results end the lifetime of their inputs; Guaranteed and None
\* results do not.
getForwardingLifetimeConstraint(kind) ==
  IF kind = Owned THEN LifetimeEnding ELSE NonLifetimeEnding

(* ---------------------------------------------------------------------- *)
(* Kind merge                                                             *)
(* ---------------------------------------------------------------------- *)

\* The failed merge (an empty Optional).
NoKind == "NoKind"

\* ValueOwnershipKind::merge(rhs): None is the identity, equal kinds
\* merge to themselves, Owned against Guaranteed fails.
mergeKind(lhs, rhs) ==
  IF lhs = None THEN rhs
  ELSE IF rhs = None THEN lhs
  ELSE IF lhs = rhs THEN lhs
  ELSE NoKind

RECURSIVE mergeFrom(_, _)
\* Left fold of mergeKind over a sequence; a failure absorbs the rest.
mergeFrom(acc, kinds) ==
  IF kinds = <<>> THEN acc
  ELSE IF acc = NoKind THEN NoKind
  ELSE mergeFrom(mergeKind(acc, Head(kinds)), Tail(kinds))

merge(kinds) == mergeFrom(None, kinds)

(* ---------------------------------------------------------------------- *)
(* Outcomes of a classification                                           *)
(* ---------------------------------------------------------------------- *)

Returned(map) == [map |-> map, tag |-> "map"]

\* llvm::report_fatal_error, a failed assertion, or llvm_unreachable in a
\* build with assertions: the process stops and no map is returned.
FatalError == [map |-> {}, tag |-> "fatal"]

\* Control reached llvm_unreachable in a build without assertions.
Undefined == [map |-> {}, tag |-> "undefined"]

llvm_unreachable(i) == IF i.asserts THEN FatalError ELSE Undefined

\* assert(cond) followed by the rest of the function.
Checked(i, cond, out) == IF i.asserts /\ ~cond THEN FatalError ELSE out

\* What the caller can observe for an outcome: undefined behaviour may
\* crash or hand back any map at all.
Outcomes(out) ==
  IF out.tag = "undefined"
    THEN {FatalError} \cup {Returned(m) : m \in AllMaps}
    ELSE {out}

(* ---------------------------------------------------------------------- *)
(* Instruction kinds, by the macro or visitor that implements them        *)
(* ---------------------------------------------------------------------- *)

ShouldNeverVisitInsts ==
  {"AllocBox", "AllocExistentialBox", "AllocGlobal", "AllocStack",
   "DifferentiabilityWitnessFunction", "FloatLiteral", "FunctionRef",
   "DynamicFunctionRef", "PreviousDynamicFunctionRef", "GlobalAddr",
   "GlobalValue", "BaseAddrForOffset", "IntegerLiteral", "Metatype",
   "ObjCProtocol", "RetainValue", "RetainValueAddr", "StringLiteral",
   "StrongRetain", "Unreachable", "Unwind", "ReleaseValue",
   "ReleaseValueAddr", "StrongRelease", "GetAsyncContinuation"}

InteriorPointerProjections ==
  {"RefElementAddr", "RefTailAddr"}

ConstantGuaranteedInsts ==
  {"OpenExistentialValue", "OpenExistentialBoxValue", "OpenExistentialBox",
   "HopToExecutor"}

ConstantOwnedInsts ==
  {"AutoreleaseValue", "DeallocBox", "DeallocExistentialBox", "DeallocRef",
   "DestroyValue", "EndLifetime", "BeginCOWMutation", "EndCOWMutation"}

ConstantNoneInsts ==
  {"AwaitAsyncContinuation", "AbortApply", "AddressToPointer",
   "BeginAccess", "BeginUnpairedAccess", "BindMemory",
   "CheckedCastAddrBranch", "CondFail", "CopyAddr", "DeallocStack",
   "DebugValueAddr", "DeinitExistentialAddr", "DestroyAddr", "EndAccess",
   "EndApply", "EndUnpairedAccess", "GetAsyncContinuationAddr", "IndexAddr",
   "IndexRawPointer", "InitBlockStorageHeader", "InitEnumDataAddr",
   "InitExistentialAddr", "InitExistentialMetatype", "InjectEnumAddr",
   "IsUnique", "Load", "LoadBorrow", "MarkFunctionEscape",
   "ObjCExistentialMetatypeToObject", "ObjCMetatypeToObject",
   "ObjCToThickMetatype", "OpenExistentialAddr", "OpenExistentialMetatype",
   "PointerToAddress", "PointerToThinFunction", "ProjectBlockStorage",
   "ProjectValueBuffer", "RawPointerToRef", "SelectEnumAddr", "SelectValue",
   "StructElementAddr", "SwitchEnumAddr", "SwitchValue", "TailAddr",
   "ThickToObjCMetatype", "ThinFunctionToPointer", "ThinToThickFunction",
   "TupleElementAddr", "UncheckedAddrCast", "UncheckedRefCastAddr",
   "UncheckedTakeEnumDataAddr", "UnconditionalCheckedCastAddr",
   "AllocValueBuffer", "DeallocValueBuffer"}

ConstantOwnershipInsts ==
  ConstantGuaranteedInsts \cup ConstantOwnedInsts \cup ConstantNoneInsts

ConstantOrNoneOwnershipInsts ==
  {"CheckedCastValueBranch", "UnconditionalCheckedCastValue",
   "InitExistentialValue", "DeinitExistentialValue"}

AcceptsAnyOwnershipInsts ==
  {"BeginBorrow", "CopyValue", "DebugValue", "FixLifetime",
   "UncheckedBitwiseCast", "WitnessMethod", "ProjectBox",
   "DynamicMethodBranch", "UncheckedTrivialBitCast", "ExistentialMetatype",
   "ValueMetatype", "UncheckedOwnershipConversion", "ValueToBridgeObject",
   "IsEscapingClosure", "ClassMethod", "ObjCMethod", "ObjCSuperMethod",
   "SuperMethod", "BridgeObjectToWord", "ClassifyBridgeObject", "CopyBlock",
   "RefToRawPointer", "SetDeallocating", "ProjectExistentialBox",
   "UnmanagedRetainValue", "UnmanagedReleaseValue",
   "UnmanagedAutoreleaseValue", "ConvertEscapeToNoEscape"}

ForwardAnyOwnershipInsts ==
  {"Tuple", "Struct", "Object", "Enum", "OpenExistentialRef", "Upcast",
   "UncheckedRefCast", "ConvertFunction", "RefToBridgeObject",
   "BridgeObjectToRef", "UnconditionalCheckedCast", "UncheckedEnumData",
   "InitExistentialRef", "DifferentiableFunction", "LinearFunction",
   "UncheckedValueCast"}

DestructureInsts == {"DestructureStruct", "DestructureTuple"}

ForwardGuaranteedInsts ==
  {"TupleExtract", "StructExtract", "DifferentiableFunctionExtract",
   "LinearFunctionExtract"}

ForwardOwnedInsts ==
  {"MarkUninitialized"}

ForwardConstantOrNoneOwnershipInsts ==
  ForwardGuaranteedInsts \cup ForwardOwnedInsts

AllocRefInsts == {"AllocRef", "AllocRefDynamic"}

DispatchInsts == {"SwitchEnum", "CheckedCastBranch"}

FullApplyInsts == {"Apply", "TryApply", "BeginApply"}

StoreStyleInsts == {"Store", "Assign", "AssignByWrapper"}

AnyOwnershipBuiltins ==
  {"ErrorInMain", "UnexpectedError", "WillThrow", "AShr", "GenericAShr",
   "Add", "GenericAdd", "Alignof", "AllocRaw", "And", "GenericAnd",
   "AssertConf", "AssignCopyArrayNoAlias", "AssignCopyArrayFrontToBack",
   "AssignCopyArrayBackToFront", "AssignTakeArray", "AssumeNonNegative",
   "AssumeTrue", "AtomicLoad", "AtomicRMW", "AtomicStore", "BitCast",
   "CanBeObjCClass", "CondFailMessage", "CmpXChg", "CondUnreachable",
   "CopyArray", "DeallocRaw", "DestroyArray", "ExactSDiv",
   "GenericExactSDiv", "ExactUDiv", "GenericExactUDiv", "ExtractElement",
   "FAdd", "GenericFAdd", "FCMP_OEQ", "FCMP_OGE", "FCMP_OGT", "FCMP_OLE",
   "FCMP_OLT", "FCMP_ONE", "FCMP_ORD", "FCMP_UEQ", "FCMP_UGE", "FCMP_UGT",
   "FCMP_ULE", "FCMP_ULT", "FCMP_UNE", "FCMP_UNO", "FDiv", "GenericFDiv",
   "FMul", "GenericFMul", "FNeg", "FPExt", "FPToSI", "FPToUI", "FPTrunc",
   "FRem", "GenericFRem", "FSub", "GenericFSub", "Fence",
   "GetObjCTypeEncoding", "ICMP_EQ", "ICMP_NE", "ICMP_SGE", "ICMP_SGT",
   "ICMP_SLE", "ICMP_SLT", "ICMP_UGE", "ICMP_UGT", "ICMP_ULE", "ICMP_ULT",
   "InsertElement", "IntToFPWithOverflow", "IntToPtr", "IsOptionalType",
   "IsPOD", "IsConcrete", "IsBitwiseTakable", "IsSameMetatype", "LShr",
   "GenericLShr", "Mul", "GenericMul", "OnFastPath", "Once",
   "OnceWithContext", "Or", "GenericOr", "PtrToInt", "SAddOver", "SDiv",
   "GenericSDiv", "SExt", "SExtOrBitCast", "SIToFP", "SMulOver", "SRem",
   "GenericSRem", "SSubOver", "SToSCheckedTrunc", "SToUCheckedTrunc",
   "Expect", "Shl", "GenericShl", "Sizeof", "StaticReport", "Strideof",
   "StringObjectOr", "Sub", "GenericSub", "TakeArrayNoAlias",
   "TakeArrayBackToFront", "TakeArrayFrontToBack", "Trunc",
   "TruncOrBitCast", "TSanInoutAccess", "UAddOver", "UDiv", "GenericUDiv",
   "UIToFP", "UMulOver", "URem", "GenericURem", "USubOver",
   "UToSCheckedTrunc", "UToUCheckedTrunc", "Unreachable",
   "UnsafeGuaranteedEnd", "Xor", "GenericXor", "ZExt", "ZExtOrBitCast",
   "ZeroInitializer", "Swift3ImplicitObjCEntrypoint", "PoundAssert",
   "GlobalStringTablePointer", "TypePtrAuthDiscriminator",
   "IntInstrprofIncrement"}

ConstantOwnedBuiltins ==
  {"COWBufferForReading", "UnsafeGuaranteed"}

ConstantGuaranteedBuiltins ==
  {"CancelAsyncTask"}

ShouldNeverVisitBuiltins ==
  {"GetCurrentAsyncTask"}

\* BUILTIN_SIL_OPERATION: builtins that SILGen lowers to instructions (a
\* sample of the identifiers Builtins.def lists).
SILOperationBuiltins ==
  {"Retain", "Release", "Load", "Take", "Destroy", "Assign", "Init"}

(* ---------------------------------------------------------------------- *)
(* The operand being classified                                           *)
(* ---------------------------------------------------------------------- *)

\* inst describes one operand of one instruction:
\*   kind      the instruction kind
\*   ops       ownership kind of the value of each operand
\*   vals      identity of the value of each operand
\*   tdep      positions of the type-dependent operands
\*   idx       position of the classified operand (operand number + 1)
\*   asserts   whether the build keeps assertions
\* and the facts the visitors read from the instruction graph.
getOwnershipKind(i) == i.ops[i.idx]

getValue(i) == i.vals[i.idx]

getOperandIndex(i) == i.idx

isAddressOrTrivialType(i) ==
  IF i.isAddress THEN TRUE ELSE getOwnershipKind(i) = None

RECURSIVE forwardedKinds_StopAtTypeDependent(_, _)
\* Variant: the first type-dependent operand ends the range instead of
\* being skipped.
forwardedKinds_StopAtTypeDependent(i, from) ==
  IF from > Len(i.ops) THEN <<>>
  ELSE IF from \in i.tdep THEN <<>>
  ELSE <<i.ops[from]>> \o forwardedKinds_StopAtTypeDependent(i, from + 1)

RECURSIVE forwardedKinds(_, _)
\* Kinds of the operands at positions from..Len(ops), type-dependent
\* operands left out (makeOptionalTransformRange).
forwardedKinds(i, from) ==
  IF from > Len(i.ops) THEN <<>>
  ELSE IF from \in i.tdep THEN forwardedKinds(i, from + 1)
  ELSE <<i.ops[from]>> \o forwardedKinds(i, from + 1)

(* ---------------------------------------------------------------------- *)
(* Visitors                                                               *)
(* ---------------------------------------------------------------------- *)

visitShouldNeverVisitInst(i) == FatalError

visitInteriorPointerProjection(i) ==
  Checked(i, Len(i.ops) > 0,
          Returned(compatibilityMap(Guaranteed, NonLifetimeEnding)))

visitConstantOwnershipInst(i) ==
  Checked(i, Len(i.ops) > 0,
    IF i.kind \in ConstantGuaranteedInsts
      THEN Returned(compatibilityMap(Guaranteed, NonLifetimeEnding))
    ELSE IF i.kind \in ConstantOwnedInsts
      THEN Returned(compatibilityMap(Owned, LifetimeEnding))
    ELSE Returned(compatibilityMap(None, NonLifetimeEnding)))

visitConstantOrNoneOwnershipInst(i) ==
  Checked(i, Len(i.ops) > 0,
          Returned(compatibilityMap(Owned, LifetimeEnding)))

\* Variant: only the kind of the operand's own value is accepted.
visitAcceptsAnyOwnershipInst_OwnKindOnly(i) ==
  Returned(compatibilityMap(getOwnershipKind(i), NonLifetimeEnding))

visitAcceptsAnyOwnershipInst(i) == Returned(allLive)

\* Variant: the operand's own kind stands in for the merged kind.
visitForwardingInst_OwnKind(i, from) ==
  Checked(i, Len(i.ops) > 0,
    LET optionalKind == getOwnershipKind(i)
    IN IF optionalKind = None THEN Returned(allLive)
       ELSE Returned(compatibilityMap(optionalKind,
                       getForwardingLifetimeConstraint(optionalKind))))

\* Variant: a failed merge is reported as a fatal error instead of the
\* empty map.
visitForwardingInst_FatalOnFailedMerge(i, from) ==
  Checked(i, Len(i.ops) > 0,
    LET optionalKind == merge(forwardedKinds(i, from))
    IN IF optionalKind = NoKind THEN FatalError
       ELSE IF optionalKind = None THEN Returned(allLive)
       ELSE Returned(compatibilityMap(optionalKind,
                       getForwardingLifetimeConstraint(optionalKind))))

\* visitForwardingInst(i, ops) with ops = the operands from position from.
visitForwardingInst(i, from) ==
  Checked(i, Len(i.ops) > 0,
    LET optionalKind == merge(forwardedKinds(i, from))
    IN IF optionalKind = NoKind THEN Returned(Map)
       ELSE IF optionalKind = None THEN Returned(allLive)
       ELSE Returned(compatibilityMap(optionalKind,
                       getForwardingLifetimeConstraint(optionalKind))))

\* Variant: the first operand is left out of the merge, as it is for
\* select_enum.
visitForwardAnyOwnershipInst_DropFront(i) == visitForwardingInst(i, 2)

visitForwardAnyOwnershipInst(i) == visitForwardingInst(i, 1)

\* visitDestructureStructInst and visitDestructureTupleInst.
visitDestructureInst(i) ==
  Returned(compatibilityMapOf(
    {<<i.instKind, getForwardingLifetimeConstraint(i.instKind)>>}))

\* Variant: the source's own kind is forwarded.
visitForwardConstantOrNoneOwnershipInst_OwnKind(i) ==
  LET kind == getOwnershipKind(i)
  IN Checked(i, Len(i.ops) > 0,
       Returned(addCompatibilityConstraint(Map, kind,
                  getForwardingLifetimeConstraint(kind))))

visitForwardConstantOrNoneOwnershipInst(i) ==
  Checked(i, Len(i.ops) > 0,
    IF i.kind \in ForwardGuaranteedInsts
      THEN Returned(addCompatibilityConstraint(Map, Guaranteed,
                                               NonLifetimeEnding))
      ELSE Returned(addCompatibilityConstraint(Map, Owned, LifetimeEnding)))

\* The instance is operand 0.
visitDeallocPartialRefInst(i) ==
  IF getValue(i) = i.vals[1]
    THEN Returned(compatibilityMap(Owned, LifetimeEnding))
    ELSE Returned(allLive)

\* The enum operand is operand 0.
visitSelectEnumInst(i) ==
  IF getValue(i) = i.vals[1]
    THEN Returned(allLive)
    ELSE visitForwardingInst(i, 2)

\* visitAllocRefInst and visitAllocRefDynamicInst.
visitAllocRefInst(i) == Checked(i, Len(i.ops) # 0, Returned(allLive))

\* Variant: no special case for a guaranteed block parameter.
visitBranchInst_DefaultsOnly(i) ==
  LET destBlockArgOwnershipKind == i.destArgs[getOperandIndex(i)]
  IN Returned(compatibilityMap(destBlockArgOwnershipKind,
       getForwardingLifetimeConstraint(destBlockArgOwnershipKind)))

visitBranchInst(i) ==
  LET destBlockArgOwnershipKind == i.destArgs[getOperandIndex(i)]
  IN IF destBlockArgOwnershipKind = Guaranteed
       THEN Returned(compatibilityMap(destBlockArgOwnershipKind,
                                      LifetimeEnding))
       ELSE Returned(compatibilityMap(destBlockArgOwnershipKind,
              getForwardingLifetimeConstraint(destBlockArgOwnershipKind)))

visitCondBranchInst(i) == Returned(allLive)

\* visitSwitchEnumInst and visitCheckedCastBranchInst.
\* Variant: the dispatched value is always consumed.
visitSwitchEnumInst_AlwaysEnding(i) ==
  LET kind == getOwnershipKind(i)
  IN Returned(compatibilityMap(kind, LifetimeEnding))

\* visitSwitchEnumInst and visitCheckedCastBranchInst.
visitSwitchEnumInst(i) ==
  LET kind == getOwnershipKind(i)
  IN Returned(compatibilityMap(kind, getForwardingLifetimeConstraint(kind)))

\* Variant: a merged None is all-live, as it is in visitForwardingInst.
visitReturnInst_NoneIsAllLive(i) ==
  IF i.isTrivial THEN Returned(allLive)
  ELSE IF i.results = <<>> THEN Returned(Map)
  ELSE LET mergedBase == merge(i.results)
       IN IF mergedBase = NoKind THEN Returned(Map)
          ELSE IF mergedBase = None THEN Returned(allLive)
          ELSE Returned(compatibilityMap(mergedBase,
                          getForwardingLifetimeConstraint(mergedBase)))

visitReturnInst(i) ==
  IF i.isTrivial THEN Returned(allLive)
  ELSE IF i.results = <<>> THEN Returned(Map)
  ELSE LET mergedBase == merge(i.results)
       IN IF mergedBase = NoKind THEN Returned(Map)
          ELSE Returned(compatibilityMap(mergedBase,
                          getForwardingLifetimeConstraint(mergedBase)))

visitEndBorrowInst(i) ==
  Returned(compatibilityMap(Guaranteed, LifetimeEnding))

visitThrowInst(i) == Returned(compatibilityMap(Owned, LifetimeEnding))

\* The source is operand 0.
visitStoreBorrowInst(i) ==
  IF getValue(i) = i.vals[1]
    THEN Returned(compatibilityMap(Guaranteed, NonLifetimeEnding))
    ELSE Returned(allLive)

\* Variant: a guaranteed callee is all-live whether or not it escapes.
visitCallee_IgnoresNoEscape(i) ==
  LET conv == i.calleeConv
  IN CASE conv \in {"Indirect_In", "Indirect_In_Constant"} ->
            Checked(i, ~i.calleeSILIndirect,
                    Returned(compatibilityMap(Owned, LifetimeEnding)))
       [] conv = "Indirect_In_Guaranteed" ->
            Checked(i, ~i.calleeSILIndirect,
                    Returned(compatibilityMap(Guaranteed, NonLifetimeEnding)))
       [] conv \in {"Indirect_Inout", "Indirect_InoutAliasable"} ->
            llvm_unreachable(i)
       [] conv = "Direct_Unowned" -> Returned(allLive)
       [] conv = "Direct_Owned" ->
            Returned(compatibilityMap(Owned, LifetimeEnding))
       [] conv = "Direct_Guaranteed" -> Returned(allLive)

visitCallee(i) ==
  LET conv == i.calleeConv
  IN CASE conv \in {"Indirect_In", "Indirect_In_Constant"} ->
            Checked(i, ~i.calleeSILIndirect,
                    Returned(compatibilityMap(Owned, LifetimeEnding)))
       [] conv = "Indirect_In_Guaranteed" ->
            Checked(i, ~i.calleeSILIndirect,
                    Returned(compatibilityMap(Guaranteed, NonLifetimeEnding)))
       [] conv \in {"Indirect_Inout", "Indirect_InoutAliasable"} ->
            llvm_unreachable(i)
       [] conv = "Direct_Unowned" -> Returned(allLive)
       [] conv = "Direct_Owned" ->
            Returned(compatibilityMap(Owned, LifetimeEnding))
       [] conv = "Direct_Guaranteed" ->
            IF i.isNoEscape THEN Returned(allLive)
            ELSE Returned(compatibilityMapOf(
                   {<<Guaranteed, NonLifetimeEnding>>,
                    <<Owned, NonLifetimeEnding>>}))

\* Variant: the required kind alone, without lending Owned.
visitApplyParameter_RequiredKindOnly(kind, requirement) ==
  compatibilityMap(kind, requirement)

\* Variant: Owned is lent whatever kind is required.
visitApplyParameter_AlwaysLendsOwned(kind, requirement) ==
  compatibilityMapOf({<<kind, requirement>>, <<Owned, NonLifetimeEnding>>})

visitApplyParameter(kind, requirement) ==
  IF kind # Owned
    THEN compatibilityMapOf({<<kind, requirement>>,
                             <<Owned, NonLifetimeEnding>>})
    ELSE compatibilityMap(kind, requirement)

\* Variant: the type-dependent test comes before the indirect-result test.
visitFullApply_TypeDependentFirst(i) ==
  IF i.isCallee THEN visitCallee(i)
  ELSE IF i.idx \in i.tdep THEN Returned(Map)
  ELSE IF i.isIndirectResult THEN Returned(allLive)
  ELSE LET conv == i.paramConv
       IN CASE conv = "Direct_Owned" ->
                 Returned(visitApplyParameter(Owned, LifetimeEnding))
            [] conv = "Direct_Unowned" -> Returned(allLive)
            [] conv = "Indirect_In" ->
                 IF i.useLoweredAddresses THEN Returned(allLive)
                 ELSE Returned(visitApplyParameter(Owned, LifetimeEnding))
            [] conv = "Indirect_In_Guaranteed" ->
                 IF i.useLoweredAddresses THEN Returned(allLive)
                 ELSE Returned(visitApplyParameter(Guaranteed,
                                                   NonLifetimeEnding))
            [] conv \in {"Indirect_In_Constant", "Indirect_Inout",
                         "Indirect_InoutAliasable"} -> Returned(allLive)
            [] conv = "Direct_Guaranteed" ->
                 Returned(visitApplyParameter(Guaranteed, NonLifetimeEnding))

\* Variant: a type-dependent operand is classified as an argument.
visitFullApply_TypeDependentAsArgument(i) ==
  IF i.isCallee THEN visitCallee(i)
  ELSE IF i.isIndirectResult THEN Returned(allLive)
  ELSE LET conv == i.paramConv
       IN CASE conv = "Direct_Owned" ->
                 Returned(visitApplyParameter(Owned, LifetimeEnding))
            [] conv = "Direct_Unowned" -> Returned(allLive)
            [] conv = "Indirect_In" ->
                 IF i.useLoweredAddresses THEN Returned(allLive)
                 ELSE Returned(visitApplyParameter(Owned, LifetimeEnding))
            [] conv = "Indirect_In_Guaranteed" ->
                 IF i.useLoweredAddresses THEN Returned(allLive)
                 ELSE Returned(visitApplyParameter(Guaranteed,
                                                   NonLifetimeEnding))
            [] conv \in {"Indirect_In_Constant", "Indirect_Inout",
                         "Indirect_InoutAliasable"} -> Returned(allLive)
            [] conv = "Direct_Guaranteed" ->
                 Returned(visitApplyParameter(Guaranteed, NonLifetimeEnding))

visitFullApply(i) ==
  IF i.isCallee THEN visitCallee(i)
  ELSE IF i.isIndirectResult THEN Returned(allLive)
  ELSE IF i.idx \in i.tdep THEN Returned(Map)
  ELSE LET conv == i.paramConv
       IN CASE conv = "Direct_Owned" ->
                 Returned(visitApplyParameter(Owned, LifetimeEnding))
            [] conv = "Direct_Unowned" -> Returned(allLive)
            [] conv = "Indirect_In" ->
                 IF i.useLoweredAddresses THEN Returned(allLive)
                 ELSE Returned(visitApplyParameter(Owned, LifetimeEnding))
            [] conv = "Indirect_In_Guaranteed" ->
                 IF i.useLoweredAddresses THEN Returned(allLive)
                 ELSE Returned(visitApplyParameter(Guaranteed,
                                                   NonLifetimeEnding))
            [] conv \in {"Indirect_In_Constant", "Indirect_Inout",
                         "Indirect_InoutAliasable"} -> Returned(allLive)
            [] conv = "Direct_Guaranteed" ->
                 Returned(visitApplyParameter(Guaranteed, NonLifetimeEnding))

\* Variant: a capture that the callee takes guaranteed is borrowed.
visitPartialApplyInst_ByConvention(i) ==
  IF i.isOnStack THEN Returned(allLive)
  ELSE IF i.paramConv \in {"Direct_Guaranteed", "Indirect_In_Guaranteed"}
    THEN Returned(compatibilityMap(Guaranteed, NonLifetimeEnding))
  ELSE Returned(compatibilityMap(Owned, LifetimeEnding))

visitPartialApplyInst(i) ==
  IF i.isOnStack THEN Returned(allLive)
  ELSE Returned(compatibilityMap(Owned, LifetimeEnding))

\* Variant: Indirect_In_Constant is grouped with Indirect_In.
visitYieldInst_ConstantIsOwned(i) ==
  IF isAddressOrTrivialType(i) THEN Returned(allLive)
  ELSE LET conv == i.yieldConv
       IN CASE conv \in {"Indirect_In", "Indirect_In_Constant",
                         "Direct_Owned"} ->
                 Returned(visitApplyParameter(Owned, LifetimeEnding))
            [] conv = "Direct_Unowned" -> Returned(allLive)
            [] conv \in {"Indirect_In_Guaranteed", "Direct_Guaranteed"} ->
                 Returned(visitApplyParameter(Guaranteed, NonLifetimeEnding))
            [] conv \in {"Indirect_Inout", "Indirect_InoutAliasable"} ->
                 llvm_unreachable(i)

\* Variant: a guaranteed yield demands Guaranteed and nothing else.
visitYieldInst_GuaranteedOnly(i) ==
  IF isAddressOrTrivialType(i) THEN Returned(allLive)
  ELSE LET conv == i.yieldConv
       IN CASE conv \in {"Indirect_In", "Direct_Owned"} ->
                 Returned(visitApplyParameter(Owned, LifetimeEnding))
            [] conv \in {"Indirect_In_Constant", "Direct_Unowned"} ->
                 Returned(allLive)
            [] conv \in {"Indirect_In_Guaranteed", "Direct_Guaranteed"} ->
                 Returned(compatibilityMap(Guaranteed, NonLifetimeEnding))
            [] conv \in {"Indirect_Inout", "Indirect_InoutAliasable"} ->
                 llvm_unreachable(i)

visitYieldInst(i) ==
  IF isAddressOrTrivialType(i) THEN Returned(allLive)
  ELSE LET conv == i.yieldConv
       IN CASE conv \in {"Indirect_In", "Direct_Owned"} ->
                 Returned(visitApplyParameter(Owned, LifetimeEnding))
            [] conv \in {"Indirect_In_Constant", "Direct_Unowned"} ->
                 Returned(allLive)
            [] conv \in {"Indirect_In_Guaranteed", "Direct_Guaranteed"} ->
                 Returned(visitApplyParameter(Guaranteed, NonLifetimeEnding))
            [] conv \in {"Indirect_Inout", "Indirect_InoutAliasable"} ->
                 llvm_unreachable(i)

\* Variant: a trivial source is not required to be Owned.
visitStoreInst_TrivialSourceLive(i) ==
  IF getValue(i) # i.vals[1] THEN Returned(allLive)
  ELSE IF getOwnershipKind(i) = None THEN Returned(allLive)
  ELSE Returned(compatibilityMap(Owned, LifetimeEnding))

\* visitAssignInst, visitAssignByWrapperInst and visitStoreInst; the
\* source is operand 0.
visitStoreInst(i) ==
  IF getValue(i) # i.vals[1] THEN Returned(allLive)
  ELSE Returned(compatibilityMap(Owned, LifetimeEnding))

\* The closure is operand 1, after the block.
visitCopyBlockWithoutEscapingInst(i) ==
  IF getValue(i) = i.vals[2]
    THEN Returned(compatibilityMap(Owned, LifetimeEnding))
    ELSE Returned(allLive)

\* The value is operand 0, the base operand 1.
visitMarkDependenceInst(i) ==
  IF getValue(i) = i.vals[1]
    THEN LET kind == i.instKind
         IN IF kind = None THEN Returned(allLive)
            ELSE Returned(compatibilityMap(kind,
                            getForwardingLifetimeConstraint(kind)))
    ELSE Returned(allLive)

visitKeyPathInst(i) == Returned(compatibilityMap(Owned, LifetimeEnding))

visitLLVMIntrinsic(i) == Returned(allLive)

visitAnyOwnershipBuiltin(i) == Returned(allLive)

visitConstantOwnershipBuiltin(i) ==
  IF i.builtin \in ConstantOwnedBuiltins
    THEN Returned(compatibilityMap(Owned, LifetimeEnding))
    ELSE Returned(compatibilityMap(Guaranteed, NonLifetimeEnding))

visitShouldNeverVisitBuiltin(i) == llvm_unreachable(i)

visitSILOperationBuiltin(i) == llvm_unreachable(i)

\* OperandOwnershipKindBuiltinClassifier().check(bi)
visitBuiltinInst(i) ==
  CASE i.builtin = "LLVMIntrinsic" -> visitLLVMIntrinsic(i)
    [] i.builtin \in AnyOwnershipBuiltins -> visitAnyOwnershipBuiltin(i)
    [] i.builtin \in ConstantOwnedBuiltins \cup ConstantGuaranteedBuiltins ->
         visitConstantOwnershipBuiltin(i)
    [] i.builtin \in ShouldNeverVisitBuiltins ->
         visitShouldNeverVisitBuiltin(i)
    [] i.builtin \in SILOperationBuiltins -> visitSILOperationBuiltin(i)

(* ---------------------------------------------------------------------- *)
(* Enumerated operands                                                    *)
(* ---------------------------------------------------------------------- *)

Default ==
  [kind |-> "", asserts |-> TRUE, ops |-> <<None>>, idx |-> 1,
   vals |-> <<1>>, isAddress |-> FALSE, tdep |-> {}, instKind |-> None,
   destArgs |-> <<>>, isTrivial |-> FALSE, results |-> <<>>,
   calleeConv |-> "Direct_Unowned", calleeSILIndirect |-> FALSE,
   isNoEscape |-> FALSE, isCallee |-> FALSE, isIndirectResult |-> FALSE,
   paramConv |-> "Direct_Unowned", useLoweredAddresses |-> TRUE,
   isOnStack |-> FALSE, yieldConv |-> "Direct_Unowned", builtin |-> ""]

Distinct(n) == [j \in 1..n |-> j]

KindSeqs(n) == [1..n -> ValueOwnershipKind]

\* One operand of an instruction whose visitor reads nothing but the kind.
SingleOperand(kinds) ==
  {[Default EXCEPT !.kind = k, !.ops = <<o>>] :
     k \in kinds, o \in ValueOwnershipKind}

\* Every operand of an instruction of 1..MaxOps operands, any of which may
\* be type-dependent.
ForwardingOperands(kinds, n) ==
  {[Default EXCEPT !.kind = x[1], !.ops = x[2], !.vals = Distinct(n),
                   !.tdep = x[3], !.idx = x[4]] :
     x \in kinds \X KindSeqs(n) \X (SUBSET (1..n)) \X (1..n)}

\* Operands of an instruction with n operands whose visitor compares the
\* operand's value with the value at position first: every later operand
\* either has a value of its own or shares the one at first.
SharedValueSeqs(n, first) ==
  {v \in [1..n -> 1..n] :
     \A j \in 1..n : v[j] = j \/ (j > first /\ v[j] = first)}

ValueOperands(kind, n, valSeqs) ==
  {[Default EXCEPT !.kind = kind, !.vals = x[1],
                   !.ops = [j \in 1..n |-> x[2][x[1][j]]],
                   !.idx = x[3], !.instKind = x[4]] :
     x \in valSeqs \X KindSeqs(n) \X (1..n) \X ValueOwnershipKind}

PlainOperands(kind, n) ==
  {[Default EXCEPT !.kind = kind, !.vals = Distinct(n), !.ops = x[1],
                   !.idx = x[2]] :
     x \in KindSeqs(n) \X (1..n)}

BranchOperands(n) ==
  {[Default EXCEPT !.kind = "Branch", !.ops = x[1], !.vals = Distinct(n),
                   !.destArgs = x[2], !.idx = x[3]] :
     x \in KindSeqs(n) \X KindSeqs(n) \X (1..n)}

\* The returned operand, in a function with n direct results; a value of
\* trivial type has kind None.
ReturnOperands(n) ==
  {[Default EXCEPT !.kind = "Return", !.ops = <<x[1]>>, !.isTrivial = x[2],
                   !.results = x[3]] :
     x \in {y \in ValueOwnershipKind \X BOOLEAN \X KindSeqs(n) :
               y[2] => y[1] = None}}

\* An operand of a call: the answers of the three role queries
\* (isCalleeOperand, isIndirectResultOperand, isTypeDependentOperand), the
\* callee's and the parameter's convention, and the build.  The callee's
\* convention is never SIL-indirect (the precondition visitCallee asserts).
FullApplyOperands ==
  {[Default EXCEPT !.kind = x[1], !.ops = <<x[2]>>, !.isCallee = x[3][1],
                   !.isIndirectResult = x[3][2],
                   !.tdep = IF x[3][3] THEN {1} ELSE {},
                   !.calleeConv = x[4], !.isNoEscape = x[5][1],
                   !.useLoweredAddresses = x[5][2], !.asserts = x[5][3],
                   !.paramConv = x[6]] :
     x \in FullApplyInsts \X ValueOwnershipKind
             \X (BOOLEAN \X BOOLEAN \X BOOLEAN) \X ParameterConvention
             \X (BOOLEAN \X BOOLEAN \X BOOLEAN) \X ParameterConvention}

PartialApplyOperands(n) ==
  {[Default EXCEPT !.kind = "PartialApply", !.ops = x[1],
                   !.vals = Distinct(n), !.idx = x[2], !.isOnStack = x[3],
                   !.paramConv = x[4]] :
     x \in KindSeqs(n) \X (1..n) \X BOOLEAN \X ParameterConvention}

YieldOperands ==
  {[Default EXCEPT !.kind = "Yield", !.ops = <<x[1]>>, !.isAddress = x[2],
                   !.yieldConv = x[3], !.asserts = x[4],
                   !.useLoweredAddresses = x[5]] :
     x \in {y \in ValueOwnershipKind \X BOOLEAN \X ParameterConvention
                     \X BOOLEAN \X BOOLEAN : y[2] => y[1] = None}}

BuiltinIds ==
  {"LLVMIntrinsic"} \cup AnyOwnershipBuiltins \cup ConstantOwnedBuiltins
    \cup ConstantGuaranteedBuiltins \cup ShouldNeverVisitBuiltins
    \cup SILOperationBuiltins

BuiltinOperands ==
  {[Default EXCEPT !.kind = "Builtin", !.ops = <<x[1]>>, !.builtin = x[2],
                   !.asserts = x[3]] :
     x \in ValueOwnershipKind \X BuiltinIds \X BOOLEAN}

\* The operands Operand::getOwnershipKindMap is called on.
IsOperand(i) ==
  \/ i \in SingleOperand(ShouldNeverVisitInsts \cup InteriorPointerProjections
                           \cup ConstantOwnershipInsts
                           \cup ConstantOrNoneOwnershipInsts
                           \cup AcceptsAnyOwnershipInsts
                           \cup ForwardConstantOrNoneOwnershipInsts
                           \cup AllocRefInsts \cup DispatchInsts
                           \cup {"CondBranch", "EndBorrow", "Throw",
                                 "KeyPath"})
  \/ \E n \in 1..MaxOps : i \in ForwardingOperands(ForwardAnyOwnershipInsts, n)
  \/ \E o \in SingleOperand(DestructureInsts), k \in ValueOwnershipKind :
       i = [o EXCEPT !.instKind = k]
  \/ i \in PlainOperands("DeallocPartialRef", 2)
  \/ \E n \in 2..MaxOps :
       i \in ValueOperands("SelectEnum", n, SharedValueSeqs(n, 1))
  \/ \E n \in 1..MaxOps : i \in BranchOperands(n)
  \/ \E n \in 0..MaxOps : i \in ReturnOperands(n)
  \/ i \in PlainOperands("StoreBorrow", 2)
  \/ i \in FullApplyOperands
  \/ \E n \in 1..MaxOps : i \in PartialApplyOperands(n)
  \/ i \in YieldOperands
  \/ i \in PlainOperands("Store", 2)
  \/ i \in PlainOperands("Assign", 2)
  \/ i \in PlainOperands("AssignByWrapper", 4)
  \/ i \in PlainOperands("CopyBlockWithoutEscaping", 2)
  \/ i \in ValueOperands("MarkDependence", 2, SharedValueSeqs(2, 1))
  \/ i \in BuiltinOperands

(* ---------------------------------------------------------------------- *)
(* Operand::getOwnershipKindMap                                           *)
(* ---------------------------------------------------------------------- *)

NoResult == [map |-> {}, tag |-> "pending"]

(* ---------------------------------------------------------------------- *)
(* Source loader: state                                                   *)
(* ---------------------------------------------------------------------- *)

ModuleNames == {"A", "B"}

\* llvm::error_code of MemoryBuffer::getFile; success is the zero code.
success == "success"
no_such_file_or_directory == "no_such_file_or_directory"
permission_denied == "permission_denied"

ErrorCodes == {success, no_such_file_or_directory, permission_denied}

\* Where findModule looks for <module>.swift: the directory of the
\* importing buffer, the current directory, the j-th import search path.
ImportDirectory == <<"importDirectory", 0>>
CurrentDirectory == <<"currentDirectory", 0>>

\* The activation of loadModule: its parameters (moduleID, pathSize,
\* importLocValid, and whether the directory of the importing buffer is
\* empty), the locals of findModule and of loadModule, and what the tables
\* held when it was entered.
NoFrame ==
  [moduleID |-> "", pathSize |-> 1, importLocValid |-> FALSE,
   directoryEmpty |-> FALSE, tried |-> <<>>, pathIndex |-> 1,
   err |-> success, inputFile |-> <<>>, bufferID |-> <<>>, importMod |-> 0,
   registeredBeforeParsing |-> FALSE, returned |-> 0,
   entryLoadedModules |-> <<>>, entryDiags |-> 0]

\* No load has been asked for.
LoaderIdle ==
  /\ ImportSearchPaths = <<>>
  /\ LoadedModules = [n \in ModuleNames |-> 0]
  /\ Modules = <<>>
  /\ SourceBuffers = {}
  /\ Diags = <<>>
  /\ SkipBodies = FALSE
  /\ frame = NoFrame
  /\ lpc = "idle"

Init ==
  /\ IsOperand(inst)
  /\ result = NoResult
  /\ pc = "call"
  /\ LoaderIdle

\* classifier.visit(user): the instruction kind selects the visitor, whose
\* outcome for this operand is out.
Visit(kinds, out) ==
  /\ pc = "call"
  /\ inst.kind \in kinds
  /\ result' \in Outcomes(out)
  /\ pc' = "done"
  /\ UNCHANGED inst
  /\ UNCHANGED loaderVars

ShouldNeverVisitInst == Visit(ShouldNeverVisitInsts, visitShouldNeverVisitInst(inst))

InteriorPointerProjection ==
  Visit(InteriorPointerProjections, visitInteriorPointerProjection(inst))

ConstantOwnershipInst == Visit(ConstantOwnershipInsts, visitConstantOwnershipInst(inst))

ConstantOrNoneOwnershipInst ==
  Visit(ConstantOrNoneOwnershipInsts, visitConstantOrNoneOwnershipInst(inst))

AcceptsAnyOwnershipInst ==
  Visit(AcceptsAnyOwnershipInsts, visitAcceptsAnyOwnershipInst(inst))

ForwardAnyOwnershipInst ==
  Visit(ForwardAnyOwnershipInsts, visitForwardAnyOwnershipInst(inst))

DestructureInst == Visit(DestructureInsts, visitDestructureInst(inst))

ForwardConstantOrNoneOwnershipInst ==
  Visit(ForwardConstantOrNoneOwnershipInsts,
        visitForwardConstantOrNoneOwnershipInst(inst))

DeallocPartialRefInst == Visit({"DeallocPartialRef"}, visitDeallocPartialRefInst(inst))

SelectEnumInst == Visit({"SelectEnum"}, visitSelectEnumInst(inst))

AllocRefInst == Visit(AllocRefInsts, visitAllocRefInst(inst))

BranchInst == Visit({"Branch"}, visitBranchInst(inst))

CondBranchInst == Visit({"CondBranch"}, visitCondBranchInst(inst))

SwitchEnumInst == Visit(DispatchInsts, visitSwitchEnumInst(inst))

ReturnInst == Visit({"Return"}, visitReturnInst(inst))

EndBorrowInst == Visit({"EndBorrow"}, visitEndBorrowInst(inst))

ThrowInst == Visit({"Throw"}, visitThrowInst(inst))

StoreBorrowInst == Visit({"StoreBorrow"}, visitStoreBorrowInst(inst))

FullApply == Visit(FullApplyInsts, visitFullApply(inst))

PartialApplyInst == Visit({"PartialApply"}, visitPartialApplyInst(inst))

YieldInst == Visit({"Yield"}, visitYieldInst(inst))

StoreInst == Visit(StoreStyleInsts, visitStoreInst(inst))

CopyBlockWithoutEscapingInst ==
  Visit({"CopyBlockWithoutEscaping"}, visitCopyBlockWithoutEscapingInst(inst))

MarkDependenceInst == Visit({"MarkDependence"}, visitMarkDependenceInst(inst))

KeyPathInst == Visit({"KeyPath"}, visitKeyPathInst(inst))

BuiltinInst == Visit({"Builtin"}, visitBuiltinInst(inst))

Next ==
  \/ ShouldNeverVisitInst
  \/ InteriorPointerProjection
  \/ ConstantOwnershipInst
  \/ ConstantOrNoneOwnershipInst
  \/ AcceptsAnyOwnershipInst
  \/ ForwardAnyOwnershipInst
  \/ DestructureInst
  \/ ForwardConstantOrNoneOwnershipInst
  \/ DeallocPartialRefInst
  \/ SelectEnumInst
  \/ AllocRefInst
  \/ BranchInst
  \/ CondBranchInst
  \/ SwitchEnumInst
  \/ ReturnInst
  \/ EndBorrowInst
  \/ ThrowInst
  \/ StoreBorrowInst
  \/ FullApply
  \/ PartialApplyInst
  \/ YieldInst
  \/ StoreInst
  \/ CopyBlockWithoutEscapingInst
  \/ MarkDependenceInst
  \/ KeyPathInst
  \/ BuiltinInst

Spec == Init /\ [][Next]_vars

TypeOK ==
  /\ pc \in {"call", "done"}
  /\ result.tag \in {"pending", "map", "fatal"}
  /\ result.map \in AllMaps

(* ---------------------------------------------------------------------- *)
(* Source loader: findModule                                              *)
(* ---------------------------------------------------------------------- *)

\* llvm::MemoryBuffer::getFile(location/moduleID.swift, buffer): the file
\* system answers with any error code; on success the buffer is set, and its
\* identifier is the file name.
getFile(f, location, e) ==
  [f EXCEPT !.tried = Append(@, <<location, e>>),
            !.inputFile = IF e = success THEN <<location, f.moduleID>> ELSE @]

\* Variant: the search goes on after the current directory had the file.
SearchCurrentDirectory_NoEarlyReturn ==
  /\ lpc = "currentDirectory"
  /\ \E e \in ErrorCodes :
       frame' = [getFile(frame, CurrentDirectory, e) EXCEPT
                   !.err = e, !.pathIndex = 1]
  /\ lpc' = "searchPaths"
  /\ UNCHANGED <<ImportSearchPaths, LoadedModules, Modules, SourceBuffers,
                 Diags, SkipBodies>>
  /\ UNCHANGED classifierVars

\* First, the directory of the buffer that holds the import location.
SearchImportDirectory ==
  /\ lpc = "findModule"
  /\ IF frame.importLocValid /\ ~frame.directoryEmpty
       THEN \E e \in ErrorCodes :
              \* this err is local to the block: it is returned on success
              \* and dropped on failure
              /\ frame' = [getFile(frame, ImportDirectory, e) EXCEPT
                             !.err = IF e = success THEN e ELSE @]
              /\ lpc' = IF e = success THEN "found" ELSE "currentDirectory"
       ELSE /\ lpc' = "currentDirectory"
            /\ UNCHANGED frame
  /\ UNCHANGED <<ImportSearchPaths, LoadedModules, Modules, SourceBuffers,
                 Diags, SkipBodies>>
  /\ UNCHANGED classifierVars

\* Second, the current directory.
SearchCurrentDirectory ==
  /\ lpc = "currentDirectory"
  /\ \E e \in ErrorCodes :
       /\ frame' = [getFile(frame, CurrentDirectory, e) EXCEPT
                      !.err = e, !.pathIndex = 1]
       /\ lpc' = IF e = success THEN "found" ELSE "searchPaths"
  /\ UNCHANGED <<ImportSearchPaths, LoadedModules, Modules, SourceBuffers,
                 Diags, SkipBodies>>
  /\ UNCHANGED classifierVars

\* One iteration of the loop over ctx.ImportSearchPaths.
SearchImportPath ==
  /\ lpc = "searchPaths"
  /\ frame.pathIndex <= Len(ImportSearchPaths)
  /\ \E e \in ErrorCodes :
       /\ frame' = [getFile(frame, ImportSearchPaths[frame.pathIndex], e)
                      EXCEPT !.err = e, !.pathIndex = @ + 1]
       /\ lpc' = IF e = success THEN "found" ELSE "searchPaths"
  /\ UNCHANGED <<ImportSearchPaths, LoadedModules, Modules, SourceBuffers,
                 Diags, SkipBodies>>
  /\ UNCHANGED classifierVars

\* The loop is over: return err.
FindModuleFails ==
  /\ lpc = "searchPaths"
  /\ frame.pathIndex > Len(ImportSearchPaths)
  /\ lpc' = "notFound"
  /\ UNCHANGED <<ImportSearchPaths, LoadedModules, Modules, SourceBuffers,
                 Diags, SkipBodies, frame>>
  /\ UNCHANGED classifierVars

(* ---------------------------------------------------------------------- *)
(* Source loader: SourceLoader::loadModule                                *)
(* ---------------------------------------------------------------------- *)

\* A caller asks for a module; path has one or two components, and the
\* location handed to findModule is that of the first component.
LoadModule ==
  /\ lpc = "idle"
  /\ Len(Modules) + Len(Diags) < MaxLoads
  /\ \E id \in ModuleNames, n \in 1..2, valid \in BOOLEAN, empty \in BOOLEAN :
       frame' = [NoFrame EXCEPT !.moduleID = id, !.pathSize = n,
                                !.importLocValid = valid,
                                !.directoryEmpty = empty,
                                !.entryLoadedModules = LoadedModules,
                                !.entryDiags = Len(Diags)]
  /\ lpc' = "loadModule"
  /\ UNCHANGED <<ImportSearchPaths, LoadedModules, Modules, SourceBuffers,
                 Diags, SkipBodies>>
  /\ UNCHANGED classifierVars

\* if (path.size() > 1) return nullptr;
RejectSubmodule ==
  /\ lpc = "loadModule"
  /\ frame.pathSize > 1
  /\ frame' = [frame EXCEPT !.returned = 0]
  /\ lpc' = "returned"
  /\ UNCHANGED <<ImportSearchPaths, LoadedModules, Modules, SourceBuffers,
                 Diags, SkipBodies>>
  /\ UNCHANGED classifierVars

CallFindModule ==
  /\ lpc = "loadModule"
  /\ ~(frame.pathSize > 1)
  /\ lpc' = "findModule"
  /\ UNCHANGED <<ImportSearchPaths, LoadedModules, Modules, SourceBuffers,
                 Diags, SkipBodies, frame>>
  /\ UNCHANGED classifierVars

\* findModule returned an error: diagnose it unless it is
\* no_such_file_or_directory, and return nullptr.
LookupFailed ==
  /\ lpc = "notFound"
  /\ Diags' = IF frame.err # no_such_file_or_directory
                THEN Append(Diags, <<frame.moduleID, frame.err>>)
                ELSE Diags
  /\ frame' = [frame EXCEPT !.returned = 0]
  /\ lpc' = "returned"
  /\ UNCHANGED <<ImportSearchPaths, LoadedModules, Modules, SourceBuffers,
                 SkipBodies>>
  /\ UNCHANGED classifierVars

\* The buffer's ID: that of the buffer the source manager already has under
\* this identifier, else a new source buffer.
AddSourceBuffer ==
  /\ lpc = "found"
  /\ frame' = [frame EXCEPT !.bufferID = frame.inputFile]
  /\ SourceBuffers' = SourceBuffers \cup {frame.inputFile}
  /\ lpc' = "register"
  /\ UNCHANGED <<ImportSearchPaths, LoadedModules, Modules, Diags, SkipBodies>>
  /\ UNCHANGED classifierVars

\* Variant: the new module is not entered in the table.
RegisterModule_NotInTable ==
  /\ lpc = "register"
  /\ LET importMod == Len(Modules) + 1
     IN /\ Modules' = Append(Modules, [name |-> frame.moduleID,
                                        files |-> <<>>, stage |-> "new"])
        /\ frame' = [frame EXCEPT !.importMod = importMod]
  /\ lpc' = "addFile"
  /\ UNCHANGED <<ImportSearchPaths, LoadedModules, SourceBuffers, Diags,
                 SkipBodies>>
  /\ UNCHANGED classifierVars

\* importMod = new (Ctx) Module(...); Ctx.LoadedModules[name] = importMod;
RegisterModule ==
  /\ lpc = "register"
  /\ LET importMod == Len(Modules) + 1
     IN /\ Modules' = Append(Modules, [name |-> frame.moduleID,
                                        files |-> <<>>, stage |-> "new"])
        /\ LoadedModules' = [LoadedModules EXCEPT ![frame.moduleID] = importMod]
        /\ frame' = [frame EXCEPT !.importMod = importMod]
  /\ lpc' = "addFile"
  /\ UNCHANGED <<ImportSearchPaths, SourceBuffers, Diags, SkipBodies>>
  /\ UNCHANGED classifierVars

\* importMod->addFile(*importFile);
AddFile ==
  /\ lpc = "addFile"
  /\ Modules' = [Modules EXCEPT ![frame.importMod].files =
                                  Append(@, frame.bufferID)]
  /\ lpc' = "parse"
  /\ UNCHANGED <<ImportSearchPaths, LoadedModules, SourceBuffers, Diags,
                 SkipBodies, frame>>
  /\ UNCHANGED classifierVars

\* parseIntoSourceFile, and performDelayedParsing under SkipBodies.  The
\* frame notes whether the table held the module when parsing began.
ParseIntoSourceFile ==
  /\ lpc = "parse"
  /\ frame' = [frame EXCEPT !.registeredBeforeParsing =
                              (LoadedModules[frame.moduleID] = frame.importMod)]
  /\ Modules' = [Modules EXCEPT ![frame.importMod].stage = "parsed"]
  /\ lpc' = "check"
  /\ UNCHANGED <<ImportSearchPaths, LoadedModules, SourceBuffers, Diags,
                 SkipBodies>>
  /\ UNCHANGED classifierVars

\* performNameBinding under SkipBodies, else performTypeChecking; then
\* return importMod.
CheckAndReturn ==
  /\ lpc = "check"
  /\ Modules' = [Modules EXCEPT ![frame.importMod].stage =
                    IF SkipBodies THEN "nameBound" ELSE "typeChecked"]
  /\ frame' = [frame EXCEPT !.returned = frame.importMod]
  /\ lpc' = "returned"
  /\ UNCHANGED <<ImportSearchPaths, LoadedModules, SourceBuffers, Diags,
                 SkipBodies>>
  /\ UNCHANGED classifierVars

\* The caller takes the result; the loader is ready for the next load.
Resume ==
  /\ lpc = "returned"
  /\ frame' = NoFrame
  /\ lpc' = "idle"
  /\ UNCHANGED <<ImportSearchPaths, LoadedModules, Modules, SourceBuffers,
                 Diags, SkipBodies>>
  /\ UNCHANGED classifierVars

\* A context with some import search paths and a loader, nothing loaded.
LoaderInit ==
  /\ inst = Default
  /\ result = NoResult
  /\ pc = "call"
  /\ \E n \in 0..MaxPaths :
       ImportSearchPaths = [j \in 1..n |-> <<"searchPath", j>>]
  /\ LoadedModules = [n \in ModuleNames |-> 0]
  /\ Modules = <<>>
  /\ SourceBuffers = {}
  /\ Diags = <<>>
  /\ SkipBodies \in BOOLEAN
  /\ frame = NoFrame
  /\ lpc = "idle"

LoaderNext ==
  \/ LoadModule
  \/ RejectSubmodule
  \/ CallFindModule
  \/ SearchImportDirectory
  \/ SearchCurrentDirectory
  \/ SearchImportPath
  \/ FindModuleFails
  \/ LookupFailed
  \/ AddSourceBuffer
  \/ RegisterModule
  \/ AddFile
  \/ ParseIntoSourceFile
  \/ CheckAndReturn
  \/ Resume

LoaderSpec == LoaderInit /\ [][LoaderNext]_vars

(* ---------------------------------------------------------------------- *)
(* Vocabulary of the properties                                           *)
(* ---------------------------------------------------------------------- *)

Done == pc = "done"

ReturnedMap == Done /\ result.tag = "map"

InoutConventions == {"Indirect_Inout", "Indirect_InoutAliasable"}

\* The operand is the argument of a call: neither callee, nor indirect
\* result, nor type-dependent.
IsArgument(i) ==
  /\ i.kind \in FullApplyInsts
  /\ ~i.isCallee /\ ~i.isIndirectResult /\ i.idx \notin i.tdep

IsCallee(i) == i.kind \in FullApplyInsts /\ i.isCallee

\* Kinds of the operands from position from that take part in the merge.
ForwardedKindSet(i, from) ==
  {i.ops[j] : j \in (from..Len(i.ops)) \ i.tdep}

\* The classification is one that the code declares unreachable.
NeverVisited(i) ==
  \/ i.kind \in ShouldNeverVisitInsts
  \/ i.kind = "Builtin"
       /\ i.builtin \in ShouldNeverVisitBuiltins \cup SILOperationBuiltins
  \/ IsCallee(i) /\ i.calleeConv \in InoutConventions
  \/ i.kind = "Yield" /\ ~i.isAddress /\ i.ops[i.idx] # None
       /\ i.yieldConv \in InoutConventions

OwnedEnding == {<<Owned, LifetimeEnding>>}

GuaranteedOrOwnedLive ==
  {<<Owned, NonLifetimeEnding>>, <<Guaranteed, NonLifetimeEnding>>}

EveryKindLive ==
  {<<None, NonLifetimeEnding>>, <<Owned, NonLifetimeEnding>>,
   <<Guaranteed, NonLifetimeEnding>>}

(* ---------------------------------------------------------------------- *)
(* C1  Totality                                                           *)
(* ---------------------------------------------------------------------- *)

\* C1 as stated: whatever the instruction kind and operand position, the
\* classification returns a map.
C1_EveryKindReturnsMap == Done => result.tag = "map"

\* C1 (amended): outside the classifications that the code declares
\* unreachable (never-visit instruction kinds, never-reached builtins, an
\* inout callee convention, an inout yield of a non-trivial object), every
\* instruction kind and operand position returns a map; a never-visit
\* instruction kind always ends in the fatal outcome.
C1_TotalOutsideNeverVisited ==
  Done =>
    /\ ~NeverVisited(inst) => result.tag = "map"
    /\ inst.kind \in ShouldNeverVisitInsts => result.tag = "fatal"

C1_Witness ==
  /\ Done /\ inst.kind = "CopyValue" /\ result = Returned(EveryKindLive)

(* ---------------------------------------------------------------------- *)
(* C2  Call arguments                                                     *)
(* ---------------------------------------------------------------------- *)

ArgumentMap(conv, lowered) ==
  CASE conv = "Direct_Owned" -> OwnedEnding
    [] conv = "Indirect_In" -> IF lowered THEN EveryKindLive ELSE OwnedEnding
    [] conv = "Direct_Guaranteed" -> GuaranteedOrOwnedLive
    [] conv = "Indirect_In_Guaranteed" ->
         IF lowered THEN EveryKindLive ELSE GuaranteedOrOwnedLive
    [] conv \in {"Direct_Unowned", "Indirect_In_Constant", "Indirect_Inout",
                 "Indirect_InoutAliasable"} -> EveryKindLive

CalleeMap(conv, noEscape) ==
  CASE conv \in {"Indirect_In", "Indirect_In_Constant", "Direct_Owned"} ->
         OwnedEnding
    [] conv = "Indirect_In_Guaranteed" -> {<<Guaranteed, NonLifetimeEnding>>}
    [] conv = "Direct_Unowned" -> EveryKindLive
    [] conv = "Direct_Guaranteed" ->
         IF noEscape THEN EveryKindLive ELSE GuaranteedOrOwnedLive

\* C3: the callee operand of a call gets the map of the callee's own
\* convention, whatever the other role queries answer for that operand.
C3_CalleeByConvention ==
  Done /\ IsCallee(inst) /\ inst.calleeConv \notin InoutConventions =>
    result = Returned(CalleeMap(inst.calleeConv, inst.isNoEscape))

C3_Witness ==
  /\ Done /\ IsCallee(inst) /\ inst.isIndirectResult /\ inst.idx \in inst.tdep
  /\ inst.calleeConv = "Direct_Guaranteed" /\ ~inst.isNoEscape
  /\ result.map = GuaranteedOrOwnedLive

(* ---------------------------------------------------------------------- *)
(* C4, C5  Forwarding instructions                                        *)
(* ---------------------------------------------------------------------- *)

\* C4: when the kinds of the operands of a forwarding instruction that are
\* not type-dependent merge (no Owned together with a Guaranteed), every
\* operand gets the same map: all-live if all of them are None, else the
\* single entry of the one non-None kind, LifetimeEnding for Owned and
\* NonLifetimeEnding for Guaranteed.
C4_ForwardingUniformMap ==
  Done /\ inst.kind \in ForwardAnyOwnershipInsts =>
    LET kinds == ForwardedKindSet(inst, 1)
    IN /\ kinds \subseteq {None} => result = Returned(EveryKindLive)
       /\ Owned \in kinds /\ Guaranteed \notin kinds =>
            result = Returned({<<Owned, LifetimeEnding>>})
       /\ Guaranteed \in kinds /\ Owned \notin kinds =>
            result = Returned({<<Guaranteed, NonLifetimeEnding>>})

C4_Witness ==
  /\ Done /\ inst.kind = "Tuple" /\ inst.ops = <<Owned, None>>
  /\ inst.tdep = {} /\ inst.idx = 2
  /\ result = Returned({<<Owned, LifetimeEnding>>})

\* C5: when the kinds a forwarding instruction merges (those of its operands
\* that are not type-dependent) hold an Owned and a Guaranteed, in any
\* positions and with any number of None, every operand of the instruction
\* gets the empty map, which accepts no kind; the failure is a returned
\* value, not a fatal error.
C5_FailedMergeIsEmpty ==
  Done /\ inst.kind \in ForwardAnyOwnershipInsts
       /\ {Owned, Guaranteed} \subseteq ForwardedKindSet(inst, 1) =>
    /\ result = Returned({})
    /\ \A k \in ValueOwnershipKind : ~canAcceptKind(result.map, k)

C5_Witness ==
  /\ Done /\ inst.kind = "Struct" /\ inst.ops = <<Owned, None, Guaranteed>>
  /\ inst.tdep = {} /\ inst.idx = 2
  /\ result = Returned({})

(* ---------------------------------------------------------------------- *)
(* C6  Kind merge                                                         *)
(* ---------------------------------------------------------------------- *)

OperandOrders(n) ==
  {p \in [1..n -> 1..n] : \A a, b \in 1..n : p[a] = p[b] => a = b}

\* inst with its operands rearranged by p.
Permuted(i, p) ==
  [i EXCEPT !.ops = [j \in 1..Len(i.ops) |-> i.ops[p[j]]],
            !.tdep = {j \in 1..Len(i.ops) : p[j] \in i.tdep}]

\* The merge of a set of kinds, whatever the order.
MergeOfSet(kinds) ==
  IF {Owned, Guaranteed} \subseteq kinds THEN NoKind
  ELSE IF Owned \in kinds THEN Owned
  ELSE IF Guaranteed \in kinds THEN Guaranteed
  ELSE None

\* The merge of kinds is the join of the set of its kinds, the same for
\* every order and for every split of the sequence in two.
MergeIndependent(kinds) ==
  LET n == Len(kinds)
  IN /\ merge(kinds) = MergeOfSet({kinds[j] : j \in 1..n})
     /\ \A p \in OperandOrders(n) :
          merge([j \in 1..n |-> kinds[p[j]]]) = merge(kinds)
     /\ \A m \in 0..n :
          mergeKind(merge(SubSeq(kinds, 1, m)),
                    merge(SubSeq(kinds, m + 1, n))) = merge(kinds)

\* C6: the merge of the kinds a forwarding instruction forwards, and of the
\* result kinds a return merges, does not depend on the order nor on the
\* grouping, and neither does the map classified from it: None is the
\* identity, equal kinds merge to themselves, Owned with Guaranteed fails,
\* and a failure absorbs every later kind.
C6_MergeOrderIndependent ==
  /\ Done /\ inst.kind \in ForwardAnyOwnershipInsts =>
       /\ MergeIndependent(forwardedKinds(inst, 1))
       /\ merge(forwardedKinds(inst, 1)) = MergeOfSet(ForwardedKindSet(inst, 1))
       /\ \A p \in OperandOrders(Len(inst.ops)) :
            /\ merge(forwardedKinds(Permuted(inst, p), 1))
                 = merge(forwardedKinds(inst, 1))
            /\ visitForwardAnyOwnershipInst(Permuted(inst, p)) = result
  /\ Done /\ inst.kind = "Return" =>
       /\ MergeIndependent(inst.results)
       /\ \A p \in OperandOrders(Len(inst.results)) :
            visitReturnInst([inst EXCEPT !.results =
              [j \in 1..Len(inst.results) |-> inst.results[p[j]]]]) = result
  /\ \A k \in ValueOwnershipKind :
       /\ mergeKind(None, k) = k /\ mergeKind(k, None) = k
       /\ mergeKind(k, k) = k
       /\ \A l \in ValueOwnershipKind : mergeFrom(NoKind, <<k, l>>) = NoKind
  /\ mergeKind(Owned, Guaranteed) = NoKind
  /\ mergeKind(Guaranteed, Owned) = NoKind

C6_Witness ==
  /\ Done /\ inst.kind = "Tuple" /\ inst.ops = <<Guaranteed, None, Owned>>
  /\ inst.tdep = {} /\ result = Returned({})

(* ---------------------------------------------------------------------- *)
(* C7  Owned is lendable                                                  *)
(* ---------------------------------------------------------------------- *)

Lendable(map) ==
  \A e \in map :
    e[1] # Owned /\ e[2] = NonLifetimeEnding =>
      <<Owned, NonLifetimeEnding>> \in map

\* C7 as stated: every returned map with a non-Owned NonLifetimeEnding
\* entry also accepts Owned as NonLifetimeEnding.
C7_EveryMapLendsOwned == ReturnedMap => Lendable(result.map)

\* C7 (amended): the maps returned for the argument operand of a call, for
\* a yield operand whose convention is not an inout one, and for a callee
\* whose convention is Direct_Guaranteed or Direct_Unowned accept Owned as
\* NonLifetimeEnding whenever they have a non-Owned NonLifetimeEnding entry.
C7_CallMapsLendOwned ==
  ReturnedMap /\ ( \/ IsArgument(inst)
                   \/ inst.kind = "Yield"
                        /\ inst.yieldConv \notin InoutConventions
                   \/ IsCallee(inst)
                        /\ inst.calleeConv \in {"Direct_Guaranteed",
                                                "Direct_Unowned"} ) =>
    Lendable(result.map)

C7_Witness ==
  /\ ReturnedMap /\ inst.kind = "Yield" /\ ~isAddressOrTrivialType(inst)
  /\ inst.yieldConv = "Direct_Guaranteed"
  /\ <<Guaranteed, NonLifetimeEnding>> \in result.map
  /\ <<Owned, NonLifetimeEnding>> \in result.map

(* ---------------------------------------------------------------------- *)
(* C8  Unconditional branch                                               *)
(* ---------------------------------------------------------------------- *)

\* C8: the operand at position i of an unconditional branch gets the
\* single entry of the kind declared for the destination block's argument
\* i, LifetimeEnding for Guaranteed and Owned and NonLifetimeEnding for
\* None, whatever the kind of the value passed.
C8_BranchByBlockArgument ==
  Done /\ inst.kind = "Branch" =>
    LET declared == inst.destArgs[inst.idx]
    IN /\ result.tag = "map"
       /\ Cardinality(result.map) = 1
       /\ declared = Guaranteed => result.map = {<<Guaranteed, LifetimeEnding>>}
       /\ declared = Owned => result.map = {<<Owned, LifetimeEnding>>}
       /\ declared = None => result.map = {<<None, NonLifetimeEnding>>}

C8_Witness ==
  /\ Done /\ inst.kind = "Branch" /\ inst.idx = 2
  /\ inst.destArgs[2] = Guaranteed /\ inst.ops[2] = Owned
  /\ result = Returned({<<Guaranteed, LifetimeEnding>>})

(* ---------------------------------------------------------------------- *)
(* C9  Store-style instructions                                           *)
(* ---------------------------------------------------------------------- *)

\* C9: the source operand of store, assign and assign_by_wrapper is Owned
\* and LifetimeEnding whatever kind the source value has; every other
\* operand is all-live.
C9_StoreSourceOwned ==
  Done /\ inst.kind \in StoreStyleInsts =>
    IF inst.idx = 1
      THEN result = Returned({<<Owned, LifetimeEnding>>})
      ELSE result = Returned(EveryKindLive)

C9_Witness ==
  /\ Done /\ inst.kind = "Store" /\ inst.idx = 1 /\ inst.ops[1] = None
  /\ result = Returned({<<Owned, LifetimeEnding>>})

(* ---------------------------------------------------------------------- *)
(* C10  Values of kind None                                               *)
(* ---------------------------------------------------------------------- *)

\* The operand is classified all-live or by the kind None.
AcceptsNoneAt(i) ==
  LET k == i.kind
  IN \/ k \in AcceptsAnyOwnershipInsts \cup ConstantNoneInsts
            \cup AllocRefInsts \cup DispatchInsts \cup {"CondBranch", "Yield"}
     \/ k \in ForwardAnyOwnershipInsts /\ ForwardedKindSet(i, 1) \subseteq {None}
     \/ k \in DestructureInsts /\ i.instKind = None
     \/ k = "SelectEnum"
          /\ (i.vals[i.idx] = i.vals[1] \/ ForwardedKindSet(i, 2) \subseteq {None})
     \/ k = "MarkDependence"
          /\ (i.vals[i.idx] # i.vals[1] \/ i.instKind = None)
     \/ k \in StoreStyleInsts \cup {"DeallocPartialRef", "StoreBorrow"}
          /\ i.idx # 1
     \/ k = "CopyBlockWithoutEscaping" /\ i.idx # 2
     \/ k = "Branch" /\ i.destArgs[i.idx] = None
     \/ k = "Return"
          /\ (i.isTrivial
                \/ (i.results # <<>>
                      /\ \A j \in 1..Len(i.results) : i.results[j] = None))
     \/ IsCallee(i) /\ i.calleeConv \notin InoutConventions
          /\ CalleeMap(i.calleeConv, i.isNoEscape) = EveryKindLive
     \/ k \in FullApplyInsts /\ ~i.isCallee /\ i.isIndirectResult
     \/ IsArgument(i)
          /\ ArgumentMap(i.paramConv, i.useLoweredAddresses) = EveryKindLive
     \/ k = "PartialApply" /\ i.isOnStack
     \/ k = "Builtin"
          /\ i.builtin \in AnyOwnershipBuiltins \cup {"LLVMIntrinsic"}

C11_InternalFailuresAreFatal ==
  Done =>
    /\ ( \/ inst.kind \in ShouldNeverVisitInsts
         \/ inst.kind = "Builtin"
              /\ inst.builtin \in ShouldNeverVisitBuiltins
                                    \cup SILOperationBuiltins
         \/ IsCallee(inst) /\ inst.calleeConv \in InoutConventions )
       => result.tag = "fatal"
    /\ result.tag = "fatal" => NeverVisited(inst)

(* ---------------------------------------------------------------------- *)
(* C12  Well-formed maps                                                  *)
(* ---------------------------------------------------------------------- *)

\* C12: no returned map, whatever the instruction kind, operand role,
\* convention and value kinds, holds one kind with both LifetimeEnding and
\* NonLifetimeEnding.
C12_OneConstraintPerKind ==
  ReturnedMap =>
    \A k \in ValueOwnershipKind :
      Cardinality({c \in UseLifetimeConstraint : <<k, c>> \in result.map}) <= 1

C12_Witness ==
  /\ ReturnedMap /\ IsArgument(inst) /\ inst.paramConv = "Direct_Owned"
  /\ result.map = {<<Owned, LifetimeEnding>>}

(* ---------------------------------------------------------------------- *)
(* C14  All-live absorption                                               *)
(* ---------------------------------------------------------------------- *)

\* C14: the all-live map accepts None, Owned and Guaranteed, each with
\* NonLifetimeEnding and never with LifetimeEnding, and it is the map of
\* every operand of an accepts-any instruction, whatever the kind of the
\* operand's value.
C14_AcceptsAnyIsAllLive ==
  /\ \A k \in ValueOwnershipKind :
       /\ canAcceptKind(allLive, k)
       /\ <<k, NonLifetimeEnding>> \in allLive
       /\ <<k, LifetimeEnding>> \notin allLive
  /\ Done /\ inst.kind \in AcceptsAnyOwnershipInsts =>
       /\ result = Returned(allLive)
       /\ <<getOwnershipKind(inst), NonLifetimeEnding>> \in result.map
       /\ \A e \in result.map : e[2] = NonLifetimeEnding

C14_Witness ==
  /\ Done /\ inst.kind = "IsEscapingClosure" /\ getOwnershipKind(inst) = Owned
  /\ result.map = EveryKindLive

(* ---------------------------------------------------------------------- *)
(* C15  Yield operands                                                    *)
(* ---------------------------------------------------------------------- *)

\* The yielded value is an address exactly when its convention is passed
\* indirectly: the inout conventions always, the other indirect ones when
\* addresses are lowered.
YieldedByAddress(conv, lowered) ==
  \/ conv \in InoutConventions
  \/ lowered /\ conv \in {"Indirect_In", "Indirect_In_Constant",
                          "Indirect_In_Guaranteed"}

IsYield(i) ==
  /\ i.kind = "Yield"
  /\ i.isAddress = YieldedByAddress(i.yieldConv, i.useLoweredAddresses)

ResultKindSet(i) == {i.results[j] : j \in 1..Len(i.results)}

\* C16 as stated: a trivial returned value is all-live; otherwise the
\* kinds of the direct results are merged and a failed merge gives the
\* empty map, None all-live, Owned {Owned: LifetimeEnding} and Guaranteed
\* {Guaranteed: NonLifetimeEnding}.
C16_ReturnFollowsMerge ==
  Done /\ inst.kind = "Return" =>
    LET kinds == ResultKindSet(inst)
    IN IF inst.isTrivial THEN result = Returned(EveryKindLive)
       ELSE IF {Owned, Guaranteed} \subseteq kinds THEN result = Returned({})
       ELSE IF Owned \in kinds THEN result = Returned(OwnedEnding)
       ELSE IF Guaranteed \in kinds
         THEN result = Returned({<<Guaranteed, NonLifetimeEnding>>})
       ELSE result = Returned(EveryKindLive)

\* C16 (amended): a trivial returned value is all-live; otherwise a
\* function without direct results and a failed merge of the result kinds
\* give the empty map, and a merged kind gives its single entry: Owned
\* {Owned: LifetimeEnding}, Guaranteed {Guaranteed: NonLifetimeEnding} and
\* None {None: NonLifetimeEnding}, which is not all-live.
C16_ReturnSingleEntry ==
  Done /\ inst.kind = "Return" =>
    LET kinds == ResultKindSet(inst)
    IN IF inst.isTrivial THEN result = Returned(EveryKindLive)
       ELSE IF kinds = {} \/ {Owned, Guaranteed} \subseteq kinds
         THEN result = Returned({})
       ELSE IF Owned \in kinds THEN result = Returned(OwnedEnding)
       ELSE IF Guaranteed \in kinds
         THEN result = Returned({<<Guaranteed, NonLifetimeEnding>>})
       ELSE result = Returned({<<None, NonLifetimeEnding>>})

C16_Witness ==
  /\ Done /\ inst.kind = "Return" /\ ~inst.isTrivial
  /\ inst.results = <<None, None>>
  /\ result = Returned({<<None, NonLifetimeEnding>>})

(* ---------------------------------------------------------------------- *)
(* C17  Multi-way dispatch                                                *)
(* ---------------------------------------------------------------------- *)

\* The single entry of a kind with its forwarding constraint.
ForwardingEntry(k) ==
  {<<k, IF k = Owned THEN LifetimeEnding ELSE NonLifetimeEnding>>}

\* The multi-way dispatch instructions: enum switch and checked-cast
\* branch, value switch, checked-cast value branch.
MultiWayDispatch ==
  DispatchInsts \cup {"SwitchValue", "CheckedCastValueBranch"}

\* C17 as stated: every operand of an enum switch, a value switch and a
\* checked-cast branch gets the single entry of its value's own kind with
\* the forwarding constraint, so the value's kind is always accepted.
C17_DispatchByOwnKind ==
  Done /\ inst.kind \in MultiWayDispatch =>
    /\ result = Returned(ForwardingEntry(getOwnershipKind(inst)))
    /\ canAcceptKind(result.map, getOwnershipKind(inst))

\* C17 (amended): every operand of an enum switch and of a checked-cast
\* branch gets the single entry of its value's own kind with the
\* forwarding constraint, so the value's kind is always accepted; a value
\* switch gets {None: NonLifetimeEnding} and a checked-cast value branch
\* {Owned: LifetimeEnding} whatever the kind of the value.
C17_EnumAndCastDispatchByOwnKind ==
  /\ Done /\ inst.kind \in DispatchInsts =>
       /\ result = Returned(ForwardingEntry(getOwnershipKind(inst)))
       /\ canAcceptKind(result.map, getOwnershipKind(inst))
  /\ Done /\ inst.kind = "SwitchValue" =>
       result = Returned({<<None, NonLifetimeEnding>>})
  /\ Done /\ inst.kind = "CheckedCastValueBranch" =>
       result = Returned(OwnedEnding)

C17_Witness ==
  /\ Done /\ inst.kind = "CheckedCastBranch"
  /\ getOwnershipKind(inst) = Guaranteed
  /\ result = Returned({<<Guaranteed, NonLifetimeEnding>>})

(* ---------------------------------------------------------------------- *)
(* C18  mark_dependence                                                   *)
(* ---------------------------------------------------------------------- *)

\* The map forwarding gives for a kind: all-live for None, else the single
\* entry with the kind's forwarding constraint.
ForwardedMap(k) == IF k = None THEN allLive ELSE ForwardingEntry(k)

\* C18: the base operand of a mark_dependence is all-live whatever the two
\* referenced values are, also when base and value operand reference the
\* same value; the value operand is all-live when the instruction's kind is
\* None and else gets the single entry of that kind with its forwarding
\* constraint.
C18_MarkDependenceByRole ==
  Done /\ inst.kind = "MarkDependence" =>
    /\ inst.idx = 2 => result = Returned(allLive)
    /\ inst.idx = 1 => result = Returned(ForwardedMap(inst.instKind))

(* ---------------------------------------------------------------------- *)
(* C19  select_enum                                                       *)
(* ---------------------------------------------------------------------- *)

\* C19: the enum operand of a select_enum is all-live; every other operand
\* gets the merge over all operands but the first: all-live for None, the
\* empty map for a failed merge, else the single entry of the merged kind.
C19_SelectEnumPayloadForwarded ==
  Done /\ inst.kind = "SelectEnum" =>
    /\ inst.idx = 1 => result = Returned(allLive)
    /\ inst.idx # 1 =>
         LET kinds == ForwardedKindSet(inst, 2) \ {None}
         IN result = Returned(IF kinds = {} THEN allLive
                              ELSE IF Cardinality(kinds) > 1 THEN {}
                              ELSE ForwardingEntry(CHOOSE k \in kinds : TRUE))

(* ---------------------------------------------------------------------- *)
(* C20  partial_apply                                                     *)
(* ---------------------------------------------------------------------- *)

\* C20: every operand of a stack-allocated partial_apply is all-live; every
\* operand of any other partial_apply gets exactly {Owned: LifetimeEnding},
\* whatever the callee's parameter convention for it and whatever its
\* position.
C20_PartialApplyCaptures ==
  Done /\ inst.kind = "PartialApply" =>
    result = Returned(IF inst.isOnStack THEN allLive ELSE OwnedEnding)

C20_Witness ==
  /\ Done /\ inst.kind = "PartialApply" /\ ~inst.isOnStack
  /\ inst.paramConv = "Direct_Guaranteed" /\ inst.idx = 2
  /\ getOwnershipKind(inst) = Guaranteed
  /\ result = Returned(OwnedEnding)

(* ---------------------------------------------------------------------- *)
(* C21  Builtins                                                          *)
(* ---------------------------------------------------------------------- *)

\* The operand belongs to a builtin instruction.
IsBuiltin(i) == i.kind = "Builtin"

\* The builtin policies, each with the identifiers that fall under it.
BuiltinPolicies ==
  <<{"LLVMIntrinsic"} \cup AnyOwnershipBuiltins, ConstantOwnedBuiltins,
    ConstantGuaranteedBuiltins,
    ShouldNeverVisitBuiltins \cup SILOperationBuiltins>>

\* C21: the answer for a builtin operand is decided by the builtin
\* identifier alone and every identifier falls under exactly one policy:
\* all-live for LLVM intrinsics and the accepts-any builtins,
\* {Owned: LifetimeEnding} for COWBufferForReading and UnsafeGuaranteed,
\* {Guaranteed: NonLifetimeEnding} for CancelAsyncTask, the fatal outcome
\* for the never-reached identifiers; no builtin maps Guaranteed or None to
\* LifetimeEnding.
C21_BuiltinByIdentifier ==
  /\ \A p, q \in 1..4 : p # q => BuiltinPolicies[p] \cap BuiltinPolicies[q] = {}
  /\ Done /\ IsBuiltin(inst) =>
       /\ inst.builtin \in BuiltinPolicies[1] => result = Returned(allLive)
       /\ inst.builtin \in BuiltinPolicies[2] => result = Returned(OwnedEnding)
       /\ inst.builtin \in BuiltinPolicies[3] =>
            result = Returned({<<Guaranteed, NonLifetimeEnding>>})
       /\ inst.builtin \in BuiltinPolicies[4] => result = FatalError
       /\ result.tag = "map" =>
            /\ <<Guaranteed, LifetimeEnding>> \notin result.map
            /\ <<None, LifetimeEnding>> \notin result.map

(* ---------------------------------------------------------------------- *)
(* C22  Extraction-style instructions                                     *)
(* ---------------------------------------------------------------------- *)

EndsBorrow(i) ==
  \/ i.kind = "EndBorrow"
  \/ i.kind = "Branch" /\ i.destArgs[getOperandIndex(i)] = Guaranteed

\* C23: in every returned map None is never mapped to LifetimeEnding, and
\* Guaranteed is mapped to LifetimeEnding only for an end_borrow operand or
\* a branch operand whose destination block parameter is Guaranteed, so
\* every other LifetimeEnding entry is keyed by Owned.
C23_LifetimeEndingRestricted ==
  ReturnedMap =>
    /\ <<None, LifetimeEnding>> \notin result.map
    /\ <<Guaranteed, LifetimeEnding>> \in result.map => EndsBorrow(inst)

(* ---------------------------------------------------------------------- *)
(* C24  Order of the operand roles of a call                              *)
(* ---------------------------------------------------------------------- *)

\* The operand is type-dependent.
IsTypeDependent(i) == getOperandIndex(i) \in i.tdep

\* C24: the roles of a call operand are tried in the order callee, indirect
\* result (all-live), type-dependent operand (empty map, whatever the
\* parameter conventions), argument; a type-dependent operand of a
\* forwarding instruction is left out of the merge and still gets the
\* merged map.
C24_CallRolesInOrder ==
  /\ Done /\ inst.kind \in FullApplyInsts =>
       /\ inst.isCallee /\ inst.calleeConv \notin InoutConventions =>
            result = Returned(CalleeMap(inst.calleeConv, inst.isNoEscape))
       /\ ~inst.isCallee /\ inst.isIndirectResult =>
            result = Returned(allLive)
       /\ ~inst.isCallee /\ ~inst.isIndirectResult /\ IsTypeDependent(inst) =>
            result = Returned({})
       /\ IsArgument(inst) =>
            result = Returned(ArgumentMap(inst.paramConv,
                                          inst.useLoweredAddresses))
  /\ Done /\ inst.kind \in ForwardAnyOwnershipInsts /\ IsTypeDependent(inst) =>
       LET kinds == ForwardedKindSet(inst, 1) \ {None}
       IN result = Returned(IF kinds = {} THEN allLive
                            ELSE IF Cardinality(kinds) > 1 THEN {}
                            ELSE ForwardingEntry(CHOOSE k \in kinds : TRUE))

C24_Witness ==
  /\ Done /\ inst.kind = "Apply"
  /\ ~inst.isCallee /\ ~inst.isIndirectResult /\ IsTypeDependent(inst)
  /\ inst.paramConv = "Direct_Owned" /\ getOwnershipKind(inst) = Owned
  /\ result = Returned({})

(* ---------------------------------------------------------------------- *)
(* C25  findModule: order of the search                                   *)
(* ---------------------------------------------------------------------- *)

\* The locations findModule may look in, in the order of the code.
SearchOrder(f) ==
  (IF f.importLocValid /\ ~f.directoryEmpty THEN <<ImportDirectory>>
   ELSE <<>>) \o <<CurrentDirectory>> \o ImportSearchPaths

\* The locations tried so far, and the answers they gave.
TriedLocations(f) == [j \in 1..Len(f.tried) |-> f.tried[j][1]]

TriedErrors(f) == [j \in 1..Len(f.tried) |-> f.tried[j][2]]

\* findModule has returned success, or an error.
Found == lpc = "found"

NotFound == lpc = "notFound"

\* C25: findModule tries the directory of the importing buffer (only for a
\* valid import location and a non-empty directory), then the current
\* directory, then each import search path in list order; it tries nothing
\* after a location that opened and returns success with that location's
\* buffer; when every location fails it returns the error of the last
\* location tried.
C25_SearchInFixedOrder ==
  LET order == SearchOrder(frame)
      locs == TriedLocations(frame)
      errs == TriedErrors(frame)
      n == Len(frame.tried)
  IN /\ n <= Len(order) /\ locs = SubSeq(order, 1, n)
     /\ \A j \in 1..(n - 1) : errs[j] # success
     /\ Found => /\ n > 0 /\ errs[n] = success
                 /\ frame.err = success
                 /\ frame.inputFile = <<locs[n], frame.moduleID>>
     /\ NotFound => /\ locs = order
                    /\ errs[n] # success
                    /\ frame.err = errs[n]

C25_Witness ==
  /\ Found
  /\ frame.tried =
       <<<<ImportDirectory, permission_denied>>,
         <<CurrentDirectory, no_such_file_or_directory>>,
         <<<<"searchPath", 1>>, no_such_file_or_directory>>,
         <<<<"searchPath", 2>>, success>>>>
  /\ frame.inputFile = <<<<"searchPath", 2>>, frame.moduleID>>

(* ---------------------------------------------------------------------- *)
(* C26  loadModule: failure and success                                   *)
(* ---------------------------------------------------------------------- *)

\* loadModule has returned; nullptr is 0.
LoadReturned == lpc = "returned"


\* This activation emitted a diagnostic.
Diagnosed == Len(Diags) > frame.entryDiags

\* Every location findModule may look in was tried and failed.
LookupFailure(f) ==
  /\ TriedLocations(f) = SearchOrder(f)
  /\ \A j \in 1..Len(f.tried) : f.tried[j][2] # success

\* C26: a failing loadModule (more than one path component, or the file
\* opens in no searched location) returns null and leaves the table of
\* loaded modules as it was; it emits a diagnostic only after a failed
\* lookup whose error is not no_such_file_or_directory.  A succeeding
\* loadModule returns the module that the table holds under the module's
\* name, and the table held it before parsing began.
C26_LoadModuleOutcome ==
  LoadReturned =>
    /\ frame.returned = 0 <=> (frame.pathSize > 1 \/ LookupFailure(frame))
    /\ frame.returned = 0 => LoadedModules = frame.entryLoadedModules
    /\ Diagnosed =>
         /\ frame.returned = 0 /\ frame.pathSize = 1 /\ LookupFailure(frame)
         /\ frame.err # no_such_file_or_directory
         /\ Diags = SubSeq(Diags, 1, frame.entryDiags)
                      \o <<(<<frame.moduleID, frame.err>>)>>
    /\ frame.returned # 0 =>
         /\ LoadedModules[frame.moduleID] = frame.returned
         /\ Modules[frame.returned].name = frame.moduleID
         /\ frame.registeredBeforeParsing
         /\ ~Diagnosed

\* A second load of a name has returned: the table holds the new module.
C26_Witness ==
  /\ LoadReturned /\ frame.returned = 2
  /\ frame.moduleID = "A" /\ Modules[1].name = "A"
  /\ frame.entryLoadedModules["A"] = 1 /\ LoadedModules["A"] = 2
  /\ frame.registeredBeforeParsing

====
